---- MODULE Spec2Model ----
(***************************************************************************)
(* RBAC policy engine of BinaryBrains-fastify: the Policy table and the    *)
(* four dimension tables (Role, Permission, Resource, Scope), the policy   *)
(* controller (createPolicy, deletePolicy, updatePolicy and the bulk       *)
(* grant/revoke handler updateAccessControlList), the index builder        *)
(* buildRBACMap and the cache-aside lookup getRBACPolicyMap.               *)
(*                                                                         *)
(* Strings are sequences of one-character strings, so that toLowerCase and *)
(* toUpperCase are computed character by character.  Row ids (UUIDs in the *)
(* program) are the naturals 1, 2, ... in order of insertion; 0 stands for *)
(* "no row" (null).                                                        *)
(*                                                                         *)
(* In Spec the HTTP requests are served one at a time: while a bulk        *)
(* request is between two of its awaits no other handler runs.             *)
(***************************************************************************)
EXTENDS Integers, Sequences, FiniteSets, TLC

VARIABLES
    dims,      \* the four dimension tables: kind -> set of rows
    policies,  \* the Policy table: set of rows
    cache,     \* the NodeCache entry of RBAC_POLICY_MAP_CACHE_KEY
    req,       \* the latest HTTP request: handler, reply status, bulk progress,
               \* last line logged
    pIn,       \* SpecBuild: the policy list handed to buildRBACMap
    pOut,      \* SpecBuild: the map buildRBACMap returned
    lk,        \* SpecLookup: the calls of getRBACPolicyMap in flight, the last
               \* line the cache utilities logged, the call that stored last
    rc         \* SpecRace: two bulk requests in flight, the table they
               \* started on, the write applied last

vars == <<dims, policies, cache, req, pIn, pOut, lk, rc>>

---------------------------------------------------------------------------
\* Bounds of the model.

\* Largest number of intents in one bulk request.
MaxBatch == 3
\* Largest number of rows the Policy table may hold.
MaxPolicies == 3
\* Largest length of a policy list handed to buildRBACMap in SpecBuild.
MaxList == 2
\* Number of calls of getRBACPolicyMap that may be in flight in SpecLookup.
MaxReaders == 2
\* Largest number of intents in each of the two bulk requests of SpecRace.
MaxRace == 2
\* Largest number of rows of a dimension table in SpecDims.
MaxDimRows == 2

---------------------------------------------------------------------------
\* Strings.

LowerChar(c) ==
    CASE c = "A" -> "a" [] c = "B" -> "b" [] c = "C" -> "c" [] OTHER -> c

UpperChar(c) ==
    CASE c = "a" -> "A" [] c = "b" -> "B" [] c = "c" -> "C" [] OTHER -> c

toLowerCase(s) == [i \in 1..Len(s) |-> LowerChar(s[i])]

toUpperCase(s) == [i \in 1..Len(s) |-> UpperChar(s[i])]

RECURSIVE trimStart(_)
trimStart(s) ==
    IF s # <<>> /\ Head(s) = " " THEN trimStart(Tail(s)) ELSE s

RECURSIVE trimEnd(_)
trimEnd(s) ==
    IF s # <<>> /\ s[Len(s)] = " " THEN trimEnd(SubSeq(s, 1, Len(s) - 1)) ELSE s

trim(s) == trimEnd(trimStart(s))

\* utils/util isInvalid on a string: a missing or empty value, both <<>>.
isInvalid(x) == x = <<>>

\* utils/util isInvalid on an id or on the result of updateRecords: 0 is the
\* missing value.
isInvalidId(x) == x = 0

---------------------------------------------------------------------------
\* Storage primitives (utils/sql/sqlUtils) over a table T, a set of rows.  A
\* row is a record; a where-clause W and a change D are records whose fields
\* are columns of the row.

Kinds == <<"role", "permission", "resource", "scope">>

\* @Unique("policy_table_unique_constraints", [...]) of the Policy entity.
PolicyUniquePerState == {"role", "permission", "resource", "scope", "isDeleted"}
PolicyUnique == {"role", "permission", "resource", "scope"}

Matches(row, W) == \A f \in DOMAIN W : row[f] = W[f]

\* The rows of T that satisfy W.
findRecords(T, W) == {row \in T : Matches(row, W)}

\* getSingleRecord: the id of a row that satisfies W, or 0 (null).
getSingleRecord(T, W) ==
    IF findRecords(T, W) = {} THEN 0
    ELSE (CHOOSE row \in findRecords(T, W) : TRUE).id

\* Some row of T other than `row` agrees with it on every column of U.
Collides(T, row, U) ==
    \E q \in T : q.id # row.id /\ \A c \in U : q[c] = row[c]

\* createRecords: insert D under a fresh id; a unique-constraint violation
\* makes the insert throw and leaves the table unchanged.
createRecords(T, D, U) ==
    LET row == [f \in DOMAIN D \cup {"id"} |->
                    IF f = "id" THEN Cardinality(T) + 1 ELSE D[f]]
    IN  IF Collides(T, row, U)
        THEN [ok |-> FALSE, rows |-> T, id |-> 0]
        ELSE [ok |-> TRUE, rows |-> T \cup {row}, id |-> row.id]

Changed(row, D) == [f \in DOMAIN row |-> IF f \in DOMAIN D THEN D[f] ELSE row[f]]

\* updateRecords: apply D to every row that satisfies W.  id is the id of an
\* updated row, 0 (an invalid result) when no row satisfies W.  A
\* unique-constraint violation makes the update throw and leaves the table
\* unchanged.
updateRecords(T, W, D, U) ==
    LET hit == findRecords(T, W)
        new == (T \ hit) \cup {Changed(row, D) : row \in hit}
    IN  IF \E row \in hit : Collides(new, Changed(row, D), U)
        THEN [ok |-> FALSE, rows |-> T, id |-> 0]
        ELSE [ok |-> TRUE, rows |-> new,
              id |-> IF hit = {} THEN 0 ELSE (CHOOSE row \in hit : TRUE).id]

---------------------------------------------------------------------------
\* Name resolution of the policy controller.

\* getSingleRecord(<Entity>, { where: { name: n.toLowerCase(), isDeleted: 0 } })
findDimension(kind, n) ==
    getSingleRecord(dims[kind], [name |-> toLowerCase(n), isDeleted |-> FALSE])

\* The four lookups of Promise.all, in the order role, permission, resource,
\* scope; names is the 4-tuple of the request's names in that order.
resolveDocs(names) == [i \in 1..4 |-> findDimension(Kinds[i], names[i])]

\* The where-clause { role, permission, resource, scope, isDeleted: 0 }.
activeTuple(docs) ==
    [role |-> docs[1], permission |-> docs[2], resource |-> docs[3],
     scope |-> docs[4], isDeleted |-> FALSE]

\* The four references alone.
tupleOf(docs) ==
    [role |-> docs[1], permission |-> docs[2], resource |-> docs[3],
     scope |-> docs[4]]

---------------------------------------------------------------------------
\* The state after start-up: the database holds the seeded dimension rows
\* (role "b" has been soft-deleted), no policy has been created, the cache is
\* empty and no request has been served.

SeedRow(id, name, isDeleted) ==
    [id |-> id, name |-> name, description |-> <<"x">>, isDeleted |-> isDeleted]

SeedDims ==
    [role       |-> {SeedRow(1, <<"a">>, FALSE), SeedRow(2, <<"b">>, TRUE)},
     permission |-> {SeedRow(1, <<"a">>, FALSE), SeedRow(2, <<"b">>, FALSE)},
     resource   |-> {SeedRow(1, <<"a">>, FALSE)},
     scope      |-> {SeedRow(1, <<"a">>, FALSE)}]

\* The names a request may carry, per position.
InputNames ==
    [role       |-> {<<"a">>, <<"A">>, <<"b">>, <<" ", "a">>, <<>>},
     permission |-> {<<"a">>, <<"b">>},
     resource   |-> {<<"a">>, <<"c">>},
     scope      |-> {<<"a">>}]

NameTuples ==
    {<<r, p, x, s>> : r \in InputNames.role, p \in InputNames.permission,
                      x \in InputNames.resource, s \in InputNames.scope}

EmptyMap == << >>

NoRequest ==
    [op |-> "none", status |-> "none", n |-> 0, k |-> 0, skipped |-> 0, last |-> ""]

\* A request that is answered in one step.
Reply(op, status) ==
    [op |-> op, status |-> status, n |-> 0, k |-> 0, skipped |-> 0, last |-> ""]

\* No bulk request is between two of its awaits.
Idle == req.status # "pending"

\* The calls of getRBACPolicyMap that SpecLookup follows.
Readers == 1..MaxReaders

\* A call that has not started: pc is its position, list the policies it
\* fetched, usable whether the fetch gave a list at all, map the map it built
\* or got, out how it went ("hit", "stored", "caught"), ret how it ended
\* ("value" or "throw").
NoCall == [pc |-> "idle", list |-> <<>>, usable |-> TRUE, map |-> EmptyMap,
           out |-> "none", ret |-> "none"]

NoLookups == [rd |-> [r \in Readers |-> NoCall], log |-> "", writer |-> 0]

\* No bulk request of SpecRace is in flight.
NoRace == [b |-> <<>>, p0 |-> {}, last |-> "none"]

Init ==
    /\ dims = SeedDims
    /\ policies = {}
    /\ cache = [present |-> FALSE, data |-> EmptyMap]
    /\ req = NoRequest
    /\ pIn = <<>>
    /\ pOut = [done |-> FALSE, map |-> EmptyMap]
    /\ lk = NoLookups
    /\ rc = NoRace

---------------------------------------------------------------------------
\* createPolicy: the table and the reply status it produces.

createPolicyOut(names, P) ==
    IF \E i \in 1..4 : isInvalid(names[i])
    THEN [rows |-> P, status |-> "BAD_REQUEST"]
    ELSE LET docs == resolveDocs(names) IN
         IF \E i \in 1..4 : docs[i] = 0
         THEN [rows |-> P, status |-> "NOT_FOUND"]
         ELSE IF getSingleRecord(P, activeTuple(docs)) # 0
         THEN [rows |-> P, status |-> "CONFLICT"]
         ELSE LET r == createRecords(P, activeTuple(docs), PolicyUnique) IN
              IF r.ok THEN [rows |-> r.rows, status |-> "CREATED"]
              ELSE [rows |-> P, status |-> "INTERNAL_SERVER_ERROR"]

createPolicy(names) ==
    /\ Idle
    /\ LET out == createPolicyOut(names, policies) IN
         /\ Cardinality(out.rows) <= MaxPolicies
         /\ policies' = out.rows
         /\ req' = Reply("createPolicy", out.status)
    /\ UNCHANGED <<dims, cache, pIn, pOut, lk, rc>>

\* A deletePolicy that does not ask for an active row, which C24 excludes.
deletePolicyAnyState(policyId, P) ==
    LET r == updateRecords(P, [id |-> policyId], [isDeleted |-> TRUE],
                           PolicyUnique)
    IN  IF isInvalidId(r.id) THEN [rows |-> P, status |-> "NOT_FOUND"]
        ELSE [rows |-> r.rows, status |-> "SUCCESS"]

\* deletePolicy: soft delete by id.
deletePolicyOut(policyId, P) ==
    IF isInvalidId(policyId)
    THEN [rows |-> P, status |-> "BAD_REQUEST"]
    ELSE LET r == updateRecords(P, [id |-> policyId, isDeleted |-> FALSE],
                                [isDeleted |-> TRUE], PolicyUnique) IN
         IF ~r.ok THEN [rows |-> P, status |-> "INTERNAL_SERVER_ERROR"]
         ELSE IF isInvalidId(r.id) THEN [rows |-> P, status |-> "NOT_FOUND"]
         ELSE [rows |-> r.rows, status |-> "SUCCESS"]

deletePolicy(policyId) ==
    /\ Idle
    /\ LET out == deletePolicyOut(policyId, policies) IN
         /\ policies' = out.rows
         /\ req' = Reply("deletePolicy", out.status)
    /\ UNCHANGED <<dims, cache, pIn, pOut, lk, rc>>

\* An updatePolicy that does not ask for an active row, which C30 excludes.
updatePolicyAnyState(policyId, names, P) ==
    LET r == updateRecords(P, [id |-> policyId], tupleOf(resolveDocs(names)),
                           PolicyUnique)
    IN  IF r.ok THEN [rows |-> r.rows, status |-> "SUCCESS"]
        ELSE [rows |-> P, status |-> "INTERNAL_SERVER_ERROR"]

\* updatePolicy (PUT): move an active row to another tuple.
updatePolicyOut(policyId, names, P) ==
    IF isInvalidId(policyId) \/ \E i \in 1..4 : isInvalid(names[i])
    THEN [rows |-> P, status |-> "BAD_REQUEST"]
    ELSE LET docs == resolveDocs(names) IN
         IF \E i \in 1..4 : docs[i] = 0
         THEN [rows |-> P, status |-> "NOT_FOUND"]
         ELSE LET r == updateRecords(P, [id |-> policyId, isDeleted |-> FALSE],
                                     tupleOf(docs), PolicyUnique) IN
              IF r.ok THEN [rows |-> r.rows, status |-> "SUCCESS"]
              ELSE [rows |-> P, status |-> "INTERNAL_SERVER_ERROR"]

updatePolicy(policyId, names) ==
    /\ Idle
    /\ LET out == updatePolicyOut(policyId, names, policies) IN
         /\ policies' = out.rows
         /\ req' = Reply("updatePolicy", out.status)
    /\ UNCHANGED <<dims, cache, pIn, pOut, lk, rc>>

---------------------------------------------------------------------------
\* Bulk grant/revoke.  An intent ac is a record with the fields role,
\* permission, resource, scope (names) and grantOrRevoke.  storeFails says that
\* a storage call made for the intent throws (storage unavailable).  The
\* helpers give the table they leave, whether they throw, and the last line
\* they log.

namesOf(ac) == <<ac.role, ac.permission, ac.resource, ac.scope>>

Intents ==
    {[role |-> t[1], permission |-> t[2], resource |-> t[3], scope |-> t[4],
      grantOrRevoke |-> g] : t \in NameTuples, g \in {"grant", "revoke", "none"}}

\* An early return of a helper: nothing is written, nothing is thrown, the
\* line is logged.
returnThrowing(P, line) == [rows |-> P, thrown |-> TRUE, log |-> line]
earlyReturn(P, line) == [rows |-> P, thrown |-> FALSE, log |-> line]

createAccessControl(ac, P, storeFails) ==
    IF \E i \in 1..4 : isInvalid(namesOf(ac)[i])
    THEN earlyReturn(P, "Invalid AccessControl entry.")
    ELSE IF storeFails
    THEN [rows |-> P, thrown |-> TRUE, log |-> "Error in createAccessControl"]
    ELSE LET docs == resolveDocs(namesOf(ac)) IN
         IF \E i \in 1..4 : docs[i] = 0
         THEN earlyReturn(P, "Invalid references in createAccessControl.")
         ELSE IF getSingleRecord(P, activeTuple(docs)) # 0
         THEN earlyReturn(P, "Policy already exists. Nothing to create.")
         ELSE LET r == createRecords(P, activeTuple(docs), PolicyUnique) IN
              IF r.ok
              THEN [rows |-> r.rows, thrown |-> FALSE,
                    log |-> "Creating or restoring policy..."]
              ELSE [rows |-> P, thrown |-> TRUE,
                    log |-> "Error in createAccessControl"]

\* A revoke that soft-deletes by the role alone, which C23 excludes.
deleteAccessControlByRole(ac, P, storeFails) ==
    LET docs == resolveDocs(namesOf(ac))
        r == updateRecords(P, [role |-> docs[1]], [isDeleted |-> TRUE],
                           PolicyUnique)
    IN  [rows |-> r.rows, thrown |-> FALSE, log |-> "Soft deleting policy..."]

deleteAccessControl(ac, P, storeFails) ==
    IF \E i \in 1..4 : isInvalid(namesOf(ac)[i])
    THEN earlyReturn(P, "Invalid AccessControl entry.")
    ELSE IF storeFails
    THEN [rows |-> P, thrown |-> TRUE, log |-> "Error in deleteAccessControl"]
    ELSE LET docs == resolveDocs(namesOf(ac)) IN
         IF \E i \in 1..4 : docs[i] = 0
         THEN earlyReturn(P, "Invalid references in deleteAccessControl.")
         ELSE LET existingPolicy == getSingleRecord(P, activeTuple(docs)) IN
              IF existingPolicy = 0
              THEN earlyReturn(P, "No matching active policy to delete.")
              ELSE LET r == updateRecords(P, [id |-> existingPolicy],
                                          [isDeleted |-> TRUE], PolicyUnique) IN
                   IF r.ok
                   THEN [rows |-> r.rows, thrown |-> FALSE,
                         log |-> "Soft deleting policy..."]
                   ELSE [rows |-> P, thrown |-> TRUE,
                         log |-> "Error in deleteAccessControl"]

\* The body of the loop of updateAccessControlList for one intent.
applyIntent(ac, P, storeFails) ==
    IF ac.grantOrRevoke = "grant" THEN createAccessControl(ac, P, storeFails)
    ELSE IF ac.grantOrRevoke = "revoke" THEN deleteAccessControl(ac, P, storeFails)
    ELSE earlyReturn(P, "")

\* updateAccessControlList on a whole array of intents when no storage call
\* is refused: the table it leaves and the status it replies.
RECURSIVE loopFrom(_, _, _)
loopFrom(accessControls, i, P) ==
    IF i > Len(accessControls) THEN [rows |-> P, status |-> "SUCCESS"]
    ELSE LET out == applyIntent(accessControls[i], P, FALSE) IN
         IF out.thrown THEN [rows |-> out.rows, status |-> "INTERNAL_SERVER_ERROR"]
         ELSE loopFrom(accessControls, i + 1, out.rows)

updateAccessControlListOut(accessControls, P) ==
    IF Len(accessControls) = 0 THEN [rows |-> P, status |-> "BAD_REQUEST"]
    ELSE loopFrom(accessControls, 1, P)

\* The request arrives with an array of n intents; an empty array is refused.
\* The intents themselves are drawn one by one as the loop reaches them.
AclBegin(n) ==
    /\ Idle
    /\ req' = IF n = 0 THEN Reply("updateAccessControlList", "BAD_REQUEST")
              ELSE [op |-> "updateAccessControlList", status |-> "pending",
                    n |-> n, k |-> 0, skipped |-> 0, last |-> ""]
    /\ UNCHANGED <<dims, policies, cache, pIn, pOut, lk, rc>>

\* The lines logged for an intent whose names are invalid or do not resolve.
SkipLines ==
    {"Invalid AccessControl entry.", "Invalid references in createAccessControl.",
     "Invalid references in deleteAccessControl."}

\* The request after a helper has thrown: the catch of the handler replies 500
\* and the loop is left.
keepLooping(r, line) == [r EXCEPT !.k = @ + 1, !.last = line]
onThrow(r, line) == [r EXCEPT !.status = "INTERNAL_SERVER_ERROR", !.last = line]

\* A loop that a skipped intent aborts, for comparison.
onReturnAbort(r, line) ==
    [r EXCEPT !.k = @ + 1,
              !.status = IF line \in SkipLines THEN "INTERNAL_SERVER_ERROR" ELSE @,
              !.skipped = IF line \in SkipLines THEN @ + 1 ELSE @,
              !.last = IF line = "" THEN @ ELSE line]

\* The request after a helper has returned: the loop goes on.
onReturn(r, line) ==
    [r EXCEPT !.k = @ + 1,
              !.skipped = IF line \in SkipLines THEN @ + 1 ELSE @,
              !.last = IF line = "" THEN @ ELSE line]

\* One turn of the loop.
AclIntent(ac, storeFails) ==
    /\ req.status = "pending"
    /\ req.k < req.n
    /\ LET out == applyIntent(ac, policies, storeFails) IN
         /\ Cardinality(out.rows) <= MaxPolicies
         /\ policies' = out.rows
         /\ req' = IF out.thrown THEN onThrow(req, out.log)
                   ELSE onReturn(req, out.log)
    /\ UNCHANGED <<dims, cache, pIn, pOut, lk, rc>>

\* The loop is over: reply 200.
AclReply ==
    /\ req.status = "pending"
    /\ req.k = req.n
    /\ req' = [req EXCEPT !.status = "SUCCESS"]
    /\ UNCHANGED <<dims, policies, cache, pIn, pOut, lk, rc>>

---------------------------------------------------------------------------
\* The index: a nested map role -> resource -> permission -> scope -> id,
\* each level a function whose domain is the set of keys present.

MapGet(m, k) == IF k \in DOMAIN m THEN m[k] ELSE EmptyMap

\* A put that forgets the other keys of the level, for comparison.
MapPutAlone(m, k, v) == [x \in {k} |-> v]

MapPut(m, k, v) == [x \in DOMAIN m \cup {k} |-> IF x = k THEN v ELSE m[x]]

\* The nesting role -> permission -> resource -> scope, for comparison.
addPolicySwapped(policiesMap, policy) ==
    LET role == toUpperCase(policy.role.name)
        permission == toUpperCase(policy.permission.name)
        resource == toUpperCase(policy.resource.name)
        scope == toUpperCase(policy.scope.name)
    IN  IF role = <<>> \/ permission = <<>> \/ resource = <<>> \/ scope = <<>>
        THEN policiesMap
        ELSE LET byPermission == MapGet(policiesMap, role)
                 byResource == MapGet(byPermission, permission)
                 byScope == MapGet(byResource, resource)
             IN  [x \in DOMAIN policiesMap \cup {role} |->
                    IF x # role THEN policiesMap[x]
                    ELSE [y \in DOMAIN byPermission \cup {permission} |->
                            IF y # permission THEN byPermission[y]
                            ELSE [z \in DOMAIN byResource \cup {resource} |->
                                    IF z # resource THEN byResource[z]
                                    ELSE [w \in DOMAIN byScope \cup {scope} |->
                                            IF w # scope THEN byScope[w]
                                            ELSE policy.id]]]]

\* The body of the loop of buildRBACMap for one policy.
addPolicy(policiesMap, policy) ==
    LET role == toUpperCase(policy.role.name)
        permission == toUpperCase(policy.permission.name)
        resource == toUpperCase(policy.resource.name)
        scope == toUpperCase(policy.scope.name)
    IN  IF role = <<>> \/ permission = <<>> \/ resource = <<>> \/ scope = <<>>
        THEN policiesMap
        ELSE LET byResource == MapGet(policiesMap, role)
                 byPermission == MapGet(byResource, resource)
                 byScope == MapGet(byPermission, permission)
             IN  MapPut(policiesMap, role,
                    MapPut(byResource, resource,
                       MapPut(byPermission, permission,
                          MapPut(byScope, scope, policy.id))))

RECURSIVE buildFrom(_, _, _)
buildFrom(list, i, policiesMap) ==
    IF i > Len(list) THEN policiesMap
    ELSE buildFrom(list, i + 1, addPolicy(policiesMap, list[i]))

buildRBACMap(list) == buildFrom(list, 1, EmptyMap)

\* The path role -> resource -> permission -> scope is in the map.
HasPath(m, role, resource, permission, scope) ==
    /\ role \in DOMAIN m
    /\ resource \in DOMAIN m[role]
    /\ permission \in DOMAIN m[role][resource]
    /\ scope \in DOMAIN m[role][resource][permission]

\* authorize(role, permission, resource, scope) on an index: the four-level
\* path check on the trimmed, upper-cased names.
authorize(m, names) ==
    HasPath(m, toUpperCase(trim(names[1])), toUpperCase(trim(names[3])),
            toUpperCase(trim(names[2])), toUpperCase(trim(names[4])))

---------------------------------------------------------------------------
\* getRBACPolicyMap.

\* The name of the dimension row a policy refers to (the joined relation).
relationName(kind, id) ==
    LET hit == findRecords(dims[kind], [id |-> id])
    IN  IF hit = {} THEN <<>> ELSE (CHOOSE d \in hit : TRUE).name

withRelations(row) ==
    [id |-> row.id,
     role |-> [name |-> relationName("role", row.role)],
     permission |-> [name |-> relationName("permission", row.permission)],
     resource |-> [name |-> relationName("resource", row.resource)],
     scope |-> [name |-> relationName("scope", row.scope)]]

RECURSIVE inIdOrder(_)
inIdOrder(S) ==
    IF S = {} THEN <<>>
    ELSE LET first == CHOOSE r \in S : \A q \in S : r.id <= q.id
         IN  <<first>> \o inIdOrder(S \ {first})

\* getAllRecordsWithFilter(Policy, { where: W, relations }): the rows that
\* satisfy W, each with its four relations loaded.
getAllRecordsWithFilter(T, W) ==
    LET rows == inIdOrder(findRecords(T, W))
    IN  [i \in 1..Len(rows) |-> withRelations(rows[i])]

\* const policyQuery = {}: a where-clause with no column.
policyQuery == [f \in {} |-> FALSE]

\* The map a cache miss builds from the table P.
missMap(P) == buildRBACMap(getAllRecordsWithFilter(P, policyQuery))

\* The map getRBACPolicyMap returns for cache entry c and table P when no
\* storage call is refused.
lookupMap(c, P) == IF c.present THEN c.data ELSE missMap(P)

\* A hit leaves the entry alone and returns it (lookupMap); a miss stores the
\* map it built and returns it.  storeFails: the fetch of the policies throws
\* and the catch returns {} without storing anything.
getRBACPolicyMap(storeFails) ==
    /\ Idle
    /\ cache' = IF cache.present \/ storeFails THEN cache
                ELSE [present |-> TRUE, data |-> missMap(policies)]
    /\ UNCHANGED <<dims, policies, req, pIn, pOut, lk, rc>>

\* The entry outlives config.RBAC_CACHE_TIME and NodeCache drops it.
ttlExpire ==
    /\ cache.present
    /\ cache' = [present |-> FALSE, data |-> EmptyMap]
    /\ UNCHANGED <<dims, policies, req, pIn, pOut, lk, rc>>

\* deleteCacheData(RBAC_POLICY_MAP_CACHE_KEY).
deleteCacheData ==
    /\ cache' = [present |-> FALSE, data |-> EmptyMap]
    /\ UNCHANGED <<dims, policies, req, pIn, pOut, lk, rc>>

---------------------------------------------------------------------------
\* Spec: the policy engine.

PolicyIds == 0..MaxPolicies

Next ==
    \/ \E names \in NameTuples : createPolicy(names)
    \/ \E policyId \in PolicyIds : deletePolicy(policyId)
    \/ \E policyId \in PolicyIds, names \in NameTuples : updatePolicy(policyId, names)
    \/ \E n \in 0..MaxBatch : AclBegin(n)
    \/ \E ac \in Intents, storeFails \in BOOLEAN : AclIntent(ac, storeFails)
    \/ AclReply
    \/ \E storeFails \in BOOLEAN : getRBACPolicyMap(storeFails)
    \/ ttlExpire
    \/ deleteCacheData

Spec == Init /\ [][Next]_vars

---------------------------------------------------------------------------
\* SpecBuild: buildRBACMap applied to an arbitrary bounded list of policies.

BuildNames ==
    [role       |-> {<<"a">>, <<"A">>, <<"b">>, <<>>},
     permission |-> {<<"a">>, <<"b">>},
     resource   |-> {<<"a">>},
     scope      |-> {<<"a">>, <<"A">>}]

BuildPolicies ==
    {[id |-> i, role |-> [name |-> r], permission |-> [name |-> p],
      resource |-> [name |-> x], scope |-> [name |-> s]] :
        i \in 1..2, r \in BuildNames.role, p \in BuildNames.permission,
        x \in BuildNames.resource, s \in BuildNames.scope}

BuildLists == UNION {[1..n -> BuildPolicies] : n \in 0..MaxList}

InitBuild ==
    /\ dims = SeedDims
    /\ policies = {}
    /\ cache = [present |-> FALSE, data |-> EmptyMap]
    /\ req = NoRequest
    /\ pIn \in BuildLists
    /\ pOut = [done |-> FALSE, map |-> EmptyMap]
    /\ lk = NoLookups
    /\ rc = NoRace

Build ==
    /\ ~pOut.done
    /\ pOut' = [done |-> TRUE, map |-> buildRBACMap(pIn)]
    /\ UNCHANGED <<dims, policies, cache, req, pIn, lk, rc>>

NextBuild == Build

SpecBuild == InitBuild /\ [][NextBuild]_vars

---------------------------------------------------------------------------
\* SpecLookup: calls of getRBACPolicyMap followed from await to await, running
\* beside each other and beside createPolicy, deletePolicy, the expiry of the
\* entry and deleteCacheData.  The cache utilities run to their end once
\* called (their bodies hold no await); the fetch of the policies is answered
\* by the storage at a later moment.

\* A get that reads another key, for comparison.
getOtherKey(c) == EmptyMap

\* localCache.get(key), as getCacheData turns it: the value, or false.
getEntry(c) == IF c.present THEN c.data ELSE EmptyMap

\* An entry that is only written when the key holds none, for comparison.
setIfAbsent(c, data) == IF c.present THEN c ELSE [present |-> TRUE, data |-> data]

\* localCache.set(key, data, cacheLimit): the entry is replaced.
setEntry(c, data) == [present |-> TRUE, data |-> data]

\* A del that misses the key, for comparison.
delOtherKey(c) == c

\* localCache.del(key).
delEntry(c) == [present |-> FALSE, data |-> EmptyMap]

\* A catch that throws the error on, for comparison.
rethrown(call) == [call EXCEPT !.pc = "done", !.out = "caught", !.ret = "throw"]

\* The catch of getRBACPolicyMap: the error is logged and {} is returned.
caught(call) ==
    [call EXCEPT !.pc = "done", !.out = "caught", !.ret = "value",
                 !.map = EmptyMap]

GetLine == "GETTING CACHE DATA"

SetLine == "SETTING CACHE DATA"

DelLine == "DELETING CACHE DATA"

\* The call starts and reads the cache: a hit returns the entry, a miss goes
\* on to the fetch; cacheFails: the read of the cache throws.
lookupGet(r, cacheFails) ==
    /\ lk.rd[r].pc = "idle"
    /\ lk' = [lk EXCEPT
                !.log = GetLine,
                !.rd[r] = IF cacheFails THEN caught(@)
                          ELSE IF cache.present
                          THEN [@ EXCEPT !.pc = "done", !.out = "hit",
                                         !.ret = "value", !.map = getEntry(cache)]
                          ELSE [@ EXCEPT !.pc = "miss"]]
    /\ UNCHANGED <<dims, policies, cache, req, pIn, pOut, rc>>

\* The storage answers the fetch with the policies it holds now, or throws.
lookupFetch(r, storeFails) ==
    /\ lk.rd[r].pc = "miss"
    /\ lk' = [lk EXCEPT
                !.rd[r] = IF storeFails THEN caught(@)
                          ELSE [@ EXCEPT !.pc = "fetched",
                                  !.list = getAllRecordsWithFilter(policies,
                                                                   policyQuery)]]
    /\ UNCHANGED <<dims, policies, cache, req, pIn, pOut, rc>>

\* The storage answers the fetch with no list (null or undefined): the cast
\* `as PolicyType[]` lets the value through.
lookupFetchNull(r) ==
    /\ lk.rd[r].pc = "miss"
    /\ lk' = [lk EXCEPT !.rd[r] = [@ EXCEPT !.pc = "fetched", !.list = <<>>,
                                            !.usable = FALSE]]
    /\ UNCHANGED <<dims, policies, cache, req, pIn, pOut, rc>>

\* buildRBACMap called by getRBACPolicyMap: the loop over a value that is no
\* list throws inside the try of buildRBACMap, whose catch returns {}.
buildOrCatch(call) ==
    IF call.usable THEN buildRBACMap(call.list) ELSE EmptyMap

\* policiesMap = await buildRBACMap(policies).
lookupBuild(r) ==
    /\ lk.rd[r].pc = "fetched"
    /\ lk' = [lk EXCEPT !.rd[r] = [@ EXCEPT !.pc = "built",
                                            !.map = buildOrCatch(lk.rd[r])]]
    /\ UNCHANGED <<dims, policies, cache, req, pIn, pOut, rc>>

\* await setCacheData(key, policiesMap, config.RBAC_CACHE_TIME); return.
lookupSet(r) ==
    /\ lk.rd[r].pc = "built"
    /\ cache' = setEntry(cache, lk.rd[r].map)
    /\ lk' = [lk EXCEPT !.log = SetLine, !.writer = r,
                        !.rd[r] = [@ EXCEPT !.pc = "done", !.out = "stored",
                                            !.ret = "value"]]
    /\ UNCHANGED <<dims, policies, req, pIn, pOut, rc>>

\* deleteCacheData(RBAC_POLICY_MAP_CACHE_KEY), called while lookups run.
invalidate ==
    /\ cache' = delEntry(cache)
    /\ lk' = [lk EXCEPT !.log = DelLine, !.writer = 0]
    /\ UNCHANGED <<dims, policies, req, pIn, pOut, rc>>

\* The entry outlives its TTL while lookups run.
expire ==
    /\ cache.present
    /\ cache' = [present |-> FALSE, data |-> EmptyMap]
    /\ lk' = [lk EXCEPT !.writer = 0]
    /\ UNCHANGED <<dims, policies, req, pIn, pOut, rc>>

NextLookup ==
    \/ \E r \in Readers, cacheFails \in BOOLEAN : lookupGet(r, cacheFails)
    \/ \E r \in Readers, storeFails \in BOOLEAN : lookupFetch(r, storeFails)
    \/ \E r \in Readers : lookupBuild(r)
    \/ \E r \in Readers : lookupSet(r)
    \/ invalidate
    \/ expire
    \/ \E names \in {<<"a">>} \X InputNames.permission \X {<<"a">>} \X {<<"a">>} :
          createPolicy(names)
    \/ \E policyId \in {1} : deletePolicy(policyId)

SpecLookup == Init /\ [][NextLookup]_vars

---------------------------------------------------------------------------
\* SpecFetch: the calls of getRBACPolicyMap of SpecLookup when the storage may
\* also answer the fetch with no list.

NextFetch ==
    \/ \E r \in Readers, cacheFails \in BOOLEAN : lookupGet(r, cacheFails)
    \/ \E r \in Readers, storeFails \in BOOLEAN : lookupFetch(r, storeFails)
    \/ \E r \in Readers : lookupFetchNull(r)
    \/ \E r \in Readers : lookupBuild(r)
    \/ \E r \in Readers : lookupSet(r)
    \/ expire
    \/ \E names \in {<<"a">>} \X InputNames.permission \X {<<"a">>} \X {<<"a">>} :
          createPolicy(names)

SpecFetch == Init /\ [][NextFetch]_vars

---------------------------------------------------------------------------
\* SpecRace: two bulk requests run beside each other.  Each helper reads the
\* table (the lookup of the active policy) at one await and writes it
\* (createRecords, updateRecords) at a later one; the other request may run in
\* between.

RaceTuples == {<<"a">>} \X InputNames.permission \X {<<"a">>} \X {<<"a">>}

RaceIntents ==
    {ac \in Intents : namesOf(ac) \in RaceTuples
                        /\ ac.grantOrRevoke \in {"grant", "revoke"}}

RaceBatches == UNION {[1..n -> RaceIntents] : n \in 1..MaxRace}

\* The tables the requests may start on: the empty table, and the table left
\* by createPolicy and deletePolicy of the tuple with permission b.
RaceTables ==
    {{}, deletePolicyOut(1,
             createPolicyOut(<<<<"a">>, <<"b">>, <<"a">>, <<"a">>>>, {}).rows).rows}

\* A bulk request about to handle its first intent.
Started(acs) ==
    [acs |-> acs, k |-> 0, pc |-> "find", found |-> 0, status |-> "pending"]

InitRace ==
    /\ dims = SeedDims
    /\ policies \in RaceTables
    /\ cache = [present |-> FALSE, data |-> EmptyMap]
    /\ req = NoRequest
    /\ pIn = <<>>
    /\ pOut = [done |-> FALSE, map |-> EmptyMap]
    /\ lk = NoLookups
    /\ \E a \in RaceBatches, b \in RaceBatches :
          rc = [b |-> <<Started(a), Started(b)>>, p0 |-> policies,
                last |-> "none"]

\* The helper has returned: the loop takes the next intent, or replies 200.
advance(b) ==
    IF b.k + 1 = Len(b.acs)
    THEN [b EXCEPT !.k = @ + 1, !.pc = "done", !.found = 0, !.status = "SUCCESS"]
    ELSE [b EXCEPT !.k = @ + 1, !.pc = "find", !.found = 0]

\* The helper has thrown: the catch replies 500.
abort(b) == [b EXCEPT !.pc = "done", !.found = 0,
                      !.status = "INTERNAL_SERVER_ERROR"]

\* existingPolicy = await getSingleRecord(Policy, { where: active tuple }).
raceFind(i) ==
    /\ rc.b[i].pc = "find"
    /\ LET ac == rc.b[i].acs[rc.b[i].k + 1]
           found == getSingleRecord(policies, activeTuple(resolveDocs(namesOf(ac))))
           returns == IF ac.grantOrRevoke = "grant" THEN found # 0 ELSE found = 0
       IN  rc' = [rc EXCEPT !.b[i] = IF returns THEN advance(@)
                                     ELSE [@ EXCEPT !.pc = "write",
                                                    !.found = found]]
    /\ UNCHANGED <<dims, policies, cache, req, pIn, pOut, lk>>

\* await createRecords(Policy, ...) of a Grant, await updateRecords(Policy,
\* { id: existingPolicy.id }, { isDeleted: 1 }) of a Revoke.
raceWrite(i) ==
    /\ rc.b[i].pc = "write"
    /\ LET ac == rc.b[i].acs[rc.b[i].k + 1]
           r == IF ac.grantOrRevoke = "grant"
                THEN createRecords(policies,
                                   activeTuple(resolveDocs(namesOf(ac))),
                                   PolicyUnique)
                ELSE updateRecords(policies, [id |-> rc.b[i].found],
                                   [isDeleted |-> TRUE], PolicyUnique)
       IN  /\ policies' = r.rows
           /\ rc' = IF r.ok
                    THEN [rc EXCEPT !.b[i] = advance(@), !.last = ac.grantOrRevoke]
                    ELSE [rc EXCEPT !.b[i] = abort(@)]
    /\ UNCHANGED <<dims, cache, req, pIn, pOut, lk>>

NextRace ==
    \/ \E i \in 1..2 : raceFind(i)
    \/ \E i \in 1..2 : raceWrite(i)

SpecRace == InitRace /\ [][NextRace]_vars

---------------------------------------------------------------------------
\* SpecRebuild: one call of getRBACPolicyMap, followed from await to await,
\* running beside bulk requests that follow one another.

RebuildIntents == RaceIntents

NextRebuild ==
    \/ lookupGet(1, FALSE)
    \/ lookupFetch(1, FALSE)
    \/ lookupBuild(1)
    \/ lookupSet(1)
    \/ \E n \in 1..MaxBatch : AclBegin(n)
    \/ \E ac \in RebuildIntents : AclIntent(ac, FALSE)
    \/ AclReply

SpecRebuild == Init /\ [][NextRebuild]_vars

---------------------------------------------------------------------------
\* The dimension controllers: the handlers of Role, Permission, Resource and
\* Scope have the same shape; kind says which table a request is for.

\* @Column({ unique: true }) name.
DimUnique == {"name"}

\* A name kept as it was typed but for the blanks around it, for comparison.
trimOnly(name) == trim(name)

\* name?.trim()?.toLowerCase()
normalize(name) == toLowerCase(trim(name))

\* A lookup that sees active rows only, for comparison.
existingActive(T, n) == getSingleRecord(T, [name |-> n, isDeleted |-> FALSE])

\* getSingleRecord(<Entity>, { where: { name } }): a row in any state.
existing(T, n) == getSingleRecord(T, [name |-> n])

\* createRole, createPermission, createResource, createScope: create the row,
\* or restore the row that has the name.
createDimensionOut(T, name, description) ==
    LET n == normalize(name) IN
    IF isInvalid(n) \/ isInvalid(description)
    THEN [rows |-> T, status |-> "BAD_REQUEST"]
    ELSE LET r == IF existing(T, n) # 0
                  THEN updateRecords(T, [name |-> n],
                           [description |-> description, isDeleted |-> FALSE],
                           DimUnique)
                  ELSE createRecords(T,
                           [name |-> n, description |-> description,
                            isDeleted |-> FALSE], DimUnique)
         IN  IF r.ok THEN [rows |-> r.rows, status |-> "CREATED"]
             ELSE [rows |-> T, status |-> "INTERNAL_SERVER_ERROR"]

\* deleteRole, deletePermission, deleteResource, deleteScope: the row with
\* the id is soft-deleted and the request is answered 200 whatever the update
\* matched.
deleteDimensionOut(T, id) ==
    IF isInvalidId(id) THEN [rows |-> T, status |-> "BAD_REQUEST"]
    ELSE LET r == updateRecords(T, [id |-> id], [isDeleted |-> TRUE], DimUnique)
         IN  IF r.ok THEN [rows |-> r.rows, status |-> "SUCCESS"]
             ELSE [rows |-> T, status |-> "INTERNAL_SERVER_ERROR"]

\* The where-clause of the PUT handlers: updateScope asks for the id alone,
\* the other three for an active row.
putWhere(kind, id) ==
    IF kind = "scope" THEN [id |-> id] ELSE [id |-> id, isDeleted |-> FALSE]

\* if (name) updateData.name = name.trim().toLowerCase();
\* if (description) updateData.description = description;
putData(body) ==
    [f \in {g \in DOMAIN body : body[g] # <<>>} |->
        IF f = "name" THEN toLowerCase(trim(body.name)) ELSE body[f]]

\* updateRole, updatePermission, updateResource, updateScope (PUT).
updateDimensionOut(kind, T, id, body) ==
    IF isInvalidId(id) THEN [rows |-> T, status |-> "BAD_REQUEST"]
    ELSE LET r == updateRecords(T, putWhere(kind, id), putData(body), DimUnique)
         IN  IF r.ok THEN [rows |-> r.rows, status |-> "SUCCESS"]
             ELSE [rows |-> T, status |-> "INTERNAL_SERVER_ERROR"]

\* The name a PATCH stores: updatePermissionFields lower-cases it, the other
\* three trim it as well.
patchName(kind, name) ==
    IF kind = "permission" THEN toLowerCase(name) ELSE toLowerCase(trim(name))

\* if (request.body.name !== undefined) updateObj.name = ...;
\* if (request.body.description !== undefined) updateObj.description = ...;
patchData(kind, body) ==
    [f \in DOMAIN body |->
        IF f = "name" THEN patchName(kind, body.name) ELSE body[f]]

\* updateRoleFields, updatePermissionFields, updateResourceFields,
\* updateScopeFields (PATCH): the row with the id, in any state.
updateDimensionFieldsOut(kind, T, id, body) ==
    IF isInvalidId(id) THEN [rows |-> T, status |-> "BAD_REQUEST"]
    ELSE LET r == updateRecords(T, [id |-> id], patchData(kind, body), DimUnique)
         IN  IF r.ok THEN [rows |-> r.rows, status |-> "SUCCESS"]
             ELSE [rows |-> T, status |-> "INTERNAL_SERVER_ERROR"]

\* Each handler answers its request and leaves the table of its kind as
\* computed above; it touches no other table, no policy and not the cache.
createDimension(kind, name, description) ==
    LET out == createDimensionOut(dims[kind], name, description) IN
        /\ Cardinality(out.rows) <= MaxDimRows
        /\ dims' = [dims EXCEPT ![kind] = out.rows]
        /\ req' = Reply("createDimension", out.status)
        /\ UNCHANGED <<policies, cache, pIn, pOut, lk, rc>>

deleteDimension(kind, id) ==
    LET out == deleteDimensionOut(dims[kind], id) IN
        /\ dims' = [dims EXCEPT ![kind] = out.rows]
        /\ req' = Reply("deleteDimension", out.status)
        /\ UNCHANGED <<policies, cache, pIn, pOut, lk, rc>>

updateDimension(kind, id, body) ==
    LET out == updateDimensionOut(kind, dims[kind], id, body) IN
        /\ dims' = [dims EXCEPT ![kind] = out.rows]
        /\ req' = Reply("updateDimension", out.status)
        /\ UNCHANGED <<policies, cache, pIn, pOut, lk, rc>>

updateDimensionFields(kind, id, body) ==
    LET out == updateDimensionFieldsOut(kind, dims[kind], id, body) IN
        /\ dims' = [dims EXCEPT ![kind] = out.rows]
        /\ req' = Reply("updateDimensionFields", out.status)
        /\ UNCHANGED <<policies, cache, pIn, pOut, lk, rc>>

---------------------------------------------------------------------------
\* SpecDims: the four dimension tables under create, PUT, PATCH and delete.
\* The handlers of a kind touch the table of that kind alone, and a behaviour
\* changes one table at a time: a request is served for a kind while the
\* other three tables are as seeded.

KindSet == {Kinds[i] : i \in 1..4}

DimNames == {<<"A">>, <<" ", "b">>}

Descriptions == {<<"x">>, <<"y">>}

DimIds == 0..MaxDimRows

\* The bodies of a PUT or PATCH: a name, a description, or both.
Bodies ==
    [name : DimNames] \cup [description : Descriptions]
        \cup {[name |-> <<"A">>, description |-> <<"y">>]}

OthersSeeded(kind) == \A k \in KindSet \ {kind} : dims[k] = SeedDims[k]

NextDims ==
    \/ \E kind \in KindSet, name \in DimNames, description \in Descriptions :
          OthersSeeded(kind) /\ createDimension(kind, name, description)
    \/ \E kind \in KindSet, id \in DimIds :
          OthersSeeded(kind) /\ deleteDimension(kind, id)
    \/ \E kind \in KindSet, id \in DimIds, body \in Bodies :
          OthersSeeded(kind) /\ updateDimension(kind, id, body)
    \/ \E kind \in KindSet, id \in DimIds, body \in Bodies :
          OthersSeeded(kind) /\ updateDimensionFields(kind, id, body)

SpecDims == Init /\ [][NextDims]_vars

---------------------------------------------------------------------------
\* SpecDimIndex: policies are created, dimension rows are soft-deleted, and
\* the index is looked up, expires and is looked up again.

NextDimIndex ==
    \/ \E names \in RaceTuples : createPolicy(names)
    \/ \E kind \in KindSet, id \in DimIds : deleteDimension(kind, id)
    \/ getRBACPolicyMap(FALSE)
    \/ ttlExpire

SpecDimIndex == Init /\ [][NextDimIndex]_vars

---------------------------------------------------------------------------
\* Vocabulary of the properties.

\* The name tuples whose four names each resolve to an active dimension row.
ResolvableTuples ==
    {t \in NameTuples :
        /\ \A i \in 1..4 : ~isInvalid(t[i])
        /\ LET docs == resolveDocs(t) IN \A i \in 1..4 : docs[i] # 0}

UnresolvableTuples == NameTuples \ ResolvableTuples

Grant(t) ==
    [role |-> t[1], permission |-> t[2], resource |-> t[3], scope |-> t[4],
     grantOrRevoke |-> "grant"]

Revoke(t) ==
    [role |-> t[1], permission |-> t[2], resource |-> t[3], scope |-> t[4],
     grantOrRevoke |-> "revoke"]

\* The rows of table P, in any state, for the tuple that t resolves to.
RowsFor(P, t) == findRecords(P, tupleOf(resolveDocs(t)))

\* The active rows among them.
ActiveRowsFor(P, t) == findRecords(P, activeTuple(resolveDocs(t)))

\* Two name tuples name different tuples: some position differs once both
\* names are trimmed and their case is folded, as authorize compares them.
Differs(u, t) ==
    \E i \in 1..4 : toUpperCase(trim(u[i])) # toUpperCase(trim(t[i]))

ErrorLines == {"Error in createAccessControl", "Error in deleteAccessControl"}

BulkOp == "updateAccessControlList"

---------------------------------------------------------------------------
\* C1: for every tuple whose four dimensions are active, the bulk request
\* Grant, Revoke, Grant ends without error and leaves exactly one row for the
\* tuple, active, with the id of the row the tuple had after the first Grant.
C1_GrantRevokeGrantRestores ==
    \A t \in ResolvableTuples :
        LET first == updateAccessControlListOut(<<Grant(t)>>, policies)
            all == updateAccessControlListOut(
                       <<Grant(t), Revoke(t), Grant(t)>>, policies)
        IN  /\ all.status = "SUCCESS"
            /\ Cardinality(RowsFor(all.rows, t)) = 1
            /\ \A q \in RowsFor(all.rows, t) :
                  /\ ~q.isDeleted
                  /\ \E q1 \in RowsFor(first.rows, t) : q1.id = q.id

\* C2: no two rows of the Policy table, soft-deleted rows included, hold the
\* same (role, permission, resource, scope).
C2_TupleUnique ==
    \A p \in policies, q \in policies :
        p.id # q.id =>
            \/ p.role # q.role
            \/ p.permission # q.permission
            \/ p.resource # q.resource
            \/ p.scope # q.scope

\* C2 witness: the table holds an active and a soft-deleted row and the
\* latest request, a createPolicy, was refused by the unique constraint.
C2_Witness ==
    /\ req.op = "createPolicy"
    /\ req.status = "INTERNAL_SERVER_ERROR"
    /\ \E p \in policies, q \in policies : p.isDeleted /\ ~q.isDeleted

\* C3: the same Grant applied twice, in one bulk request or in two, leaves
\* exactly one active row for the tuple; the second application changes no
\* row and raises no error.
C3_GrantIdempotent ==
    \A t \in ResolvableTuples :
        LET once == updateAccessControlListOut(<<Grant(t)>>, policies)
            again == updateAccessControlListOut(<<Grant(t)>>, once.rows)
            both == updateAccessControlListOut(<<Grant(t), Grant(t)>>, policies)
        IN  /\ again.status = "SUCCESS"
            /\ again.rows = once.rows
            /\ both.status = "SUCCESS"
            /\ both.rows = once.rows
            /\ Cardinality(ActiveRowsFor(again.rows, t)) = 1

\* C4: a Revoke of a tuple that has no active row (never granted, or already
\* revoked) changes no row and raises no error.
C4_RevokeIdempotent ==
    \A t \in ResolvableTuples :
        ActiveRowsFor(policies, t) = {} =>
            updateAccessControlListOut(<<Revoke(t)>>, policies)
                = [rows |-> policies, status |-> "SUCCESS"]

\* C4 witness: a bulk request whose last intent found no active policy to
\* delete was answered 200 while a soft-deleted row is in the table.
C4_Witness ==
    /\ req.op = BulkOp
    /\ req.status = "SUCCESS"
    /\ req.last = "No matching active policy to delete."
    /\ \E q \in policies : q.isDeleted

\* C5: when an index is cached at the time a bulk request starts, once the
\* request has been answered 200 the next lookup answers, for the tuple the
\* request granted or revoked, what the Policy table says: authorized exactly
\* if the tuple has an active row.
C5_LookupFollowsBatch ==
    cache.present =>
        \A t \in ResolvableTuples : \A ac \in {Grant(t), Revoke(t)} :
            LET out == updateAccessControlListOut(<<ac>>, policies)
            IN  out.status = "SUCCESS" =>
                    (authorize(lookupMap(cache, out.rows), t)
                        <=> ActiveRowsFor(out.rows, t) # {})

\* C6: the map built on a cache miss holds the path of a tuple only if the
\* tuple has an active row; so with an empty cache a tuple whose row is
\* soft-deleted is not authorized.
C6_MissMapActiveOnly ==
    \A t \in ResolvableTuples :
        /\ authorize(missMap(policies), t) => ActiveRowsFor(policies, t) # {}
        /\ (~cache.present /\ ActiveRowsFor(policies, t) = {})
               => ~authorize(lookupMap(cache, policies), t)

\* C7: from a table without policies and an empty cache, after the bulk
\* request <<Grant T>> has been answered the lookup authorizes T and no name
\* tuple that differs from T in one of the four names.
C7_SingleGrantEndToEnd ==
    (policies = {} /\ ~cache.present) =>
        \A t \in ResolvableTuples :
            LET out == updateAccessControlListOut(<<Grant(t)>>, policies)
                m == lookupMap(cache, out.rows)
            IN  /\ out.status = "SUCCESS"
                /\ authorize(m, t)
                /\ \A u \in NameTuples : Differs(u, t) => ~authorize(m, u)

\* C7 witness: a bulk request of one intent created a policy, was answered
\* 200, and the lookup that followed stored a map that authorizes exactly one
\* of the two tuples that can be granted.
C7_Witness ==
    /\ req.op = BulkOp
    /\ req.status = "SUCCESS"
    /\ req.n = 1
    /\ req.last = "Creating or restoring policy..."
    /\ Cardinality(policies) = 1
    /\ cache.present
    /\ \E t \in ResolvableTuples, u \in ResolvableTuples :
          authorize(cache.data, t) /\ ~authorize(cache.data, u)

\* The paths <<role, resource, permission, scope>> that map m holds.
PathsOf(m) ==
    UNION {UNION {UNION {{<<r, x, p, s>> : s \in DOMAIN m[r][x][p]}
                            : p \in DOMAIN m[r][x]}
                     : x \in DOMAIN m[r]}
              : r \in DOMAIN m}

\* Policy pol has the four names of the path, letter case ignored.
NamedLike(pol, role, resource, permission, scope) ==
    /\ toLowerCase(pol.role.name) = toLowerCase(role)
    /\ toLowerCase(pol.resource.name) = toLowerCase(resource)
    /\ toLowerCase(pol.permission.name) = toLowerCase(permission)
    /\ toLowerCase(pol.scope.name) = toLowerCase(scope)

NonEmptyNames(list) ==
    \A i \in 1..Len(list) :
        /\ list[i].role.name # <<>>
        /\ list[i].permission.name # <<>>
        /\ list[i].resource.name # <<>>
        /\ list[i].scope.name # <<>>

\* C8: for a list P of policies with non-empty names, buildRBACMap(P) holds
\* the path ROLE -> RESOURCE -> PERMISSION -> SCOPE of upper-cased names
\* exactly if P holds a policy with those four names compared
\* case-insensitively, and the value at the path is the id of such a policy:
\* every path of the map is in upper case and carries the id of a policy of
\* P with its names, and every policy of P has its path in the map.
C8_IndexCorrect ==
    (pOut.done /\ NonEmptyNames(pIn)) =>
        /\ \A path \in PathsOf(pOut.map) :
              /\ \A j \in 1..4 : path[j] = toUpperCase(path[j])
              /\ \E i \in 1..Len(pIn) :
                    /\ NamedLike(pIn[i], path[1], path[2], path[3], path[4])
                    /\ pOut.map[path[1]][path[2]][path[3]][path[4]] = pIn[i].id
        /\ \A i \in 1..Len(pIn) :
              HasPath(pOut.map, toUpperCase(pIn[i].role.name),
                      toUpperCase(pIn[i].resource.name),
                      toUpperCase(pIn[i].permission.name),
                      toUpperCase(pIn[i].scope.name))

\* C8 witness: the map was built from two policies whose names differ only in
\* letter case and whose ids differ, and it holds their one path.
C8_Witness ==
    /\ pOut.done
    /\ Len(pIn) = 2
    /\ NonEmptyNames(pIn)
    /\ pIn[1].role.name = <<"a">>
    /\ pIn[2].role.name = <<"A">>
    /\ pIn[1].id # pIn[2].id
    /\ NamedLike(pIn[1], <<"A">>, <<"A">>, <<"B">>, <<"A">>)
    /\ NamedLike(pIn[2], <<"A">>, <<"A">>, <<"B">>, <<"A">>)
    /\ HasPath(pOut.map, <<"A">>, <<"A">>, <<"B">>, <<"A">>)

\* C9: a Grant or Revoke whose names do not all resolve to active dimension
\* rows writes no Policy row, throws nothing and logs one of the lines of a
\* skipped intent; and the turn of the loop that skips an intent writes no
\* row and leaves the request pending with the loop one intent further.
C9_UnresolvedIsNoOp ==
    /\ [](\A u \in UnresolvableTuples : \A ac \in {Grant(u), Revoke(u)} :
             LET out == applyIntent(ac, policies, FALSE)
             IN  /\ out.rows = policies
                 /\ ~out.thrown
                 /\ out.log \in SkipLines)
    /\ [][req'.skipped = req.skipped + 1
              => /\ req'.status = "pending"
                 /\ req'.k = req.k + 1
                 /\ req'.n = req.n
                 /\ policies' = policies]_vars

\* C9 witness: a bulk request of two intents skipped one whose names do not
\* resolve, created a policy for the other and was answered 200.
C9_Witness ==
    /\ req.op = BulkOp
    /\ req.status = "SUCCESS"
    /\ req.n = 2
    /\ req.skipped = 1
    /\ req.last = "Creating or restoring policy..."
    /\ Cardinality(policies) = 1

\* C10: the turn of the loop in which a storage call fails replies 500, writes
\* no row and leaves the rows written by the turns before it; and once the
\* request has been answered 500 no turn of it writes a row.
C10_PartialApplication ==
    [][/\ (req.status = "pending" /\ req'.last \in ErrorLines)
              => /\ req'.op = BulkOp
                 /\ req'.status = "INTERNAL_SERVER_ERROR"
                 /\ req'.k = req.k
                 /\ policies' = policies
       /\ (req.op = BulkOp /\ req.status = "INTERNAL_SERVER_ERROR")
              => (policies' = policies \/ req'.op # BulkOp)
      ]_vars

\* C10 witness: a bulk request of three intents applied the first, creating a
\* row, failed on the second and was answered 500 with the row still in the
\* table.
C10_Witness ==
    /\ req.op = BulkOp
    /\ req.status = "INTERNAL_SERVER_ERROR"
    /\ req.n = 3
    /\ req.k = 1
    /\ req.skipped = 0
    /\ req.last \in ErrorLines
    /\ Cardinality(policies) = 1

\* C11: when the bulk request is answered, with 200 or with 500, the cache
\* holds no entry for the index.
C11_BatchEmptiesCache ==
    [][(req.op = BulkOp /\ req.status = "pending"
            /\ req'.status \in {"SUCCESS", "INTERNAL_SERVER_ERROR"})
          => ~cache'.present]_vars

\* The names of the single-policy handlers and the statuses of their success.
CrudOps == {"createPolicy", "updatePolicy", "deletePolicy"}

CrudDone == {"CREATED", "SUCCESS"}

\* C12: when createPolicy, updatePolicy or deletePolicy has changed the
\* Policy table and replied success while an index is cached, the next
\* lookup authorizes a tuple exactly if the tuple has an active row.
C12_LookupFollowsCrud ==
    [][(cache.present /\ policies' # policies
            /\ req'.op \in CrudOps /\ req'.status \in CrudDone)
          => \A t \in ResolvableTuples :
                authorize(lookupMap(cache', policies'), t)
                    <=> ActiveRowsFor(policies', t) # {}]_vars

\* The name tuples that differ from t only in letter case and in leading or
\* trailing blanks.
Spellings(t) ==
    {u \in NameTuples :
        \A i \in 1..4 : toLowerCase(trim(u[i])) = toLowerCase(trim(t[i]))}

\* C18: a Grant, a Revoke or a createPolicy whose names differ from the names
\* of active dimension rows only in letter case or in leading or trailing
\* blanks leaves the table that the request with the stored names leaves, and
\* replies the same status.
C18_NamesNormalised ==
    \A t \in ResolvableTuples : \A u \in Spellings(t) :
        /\ updateAccessControlListOut(<<Grant(u)>>, policies)
              = updateAccessControlListOut(<<Grant(t)>>, policies)
        /\ updateAccessControlListOut(<<Revoke(u)>>, policies)
              = updateAccessControlListOut(<<Revoke(t)>>, policies)
        /\ createPolicyOut(u, policies) = createPolicyOut(t, policies)

\* C19: createPolicy for a tuple that has a row is refused and leaves the
\* table as it is: with 409 when the row is active, and with the storage's
\* unique-constraint error (replied as 500) when the row is soft-deleted.
C19_CreateExistingRefused ==
    \A t \in ResolvableTuples :
        RowsFor(policies, t) # {} =>
            LET out == createPolicyOut(t, policies)
            IN  /\ out.rows = policies
                /\ out.status = IF ActiveRowsFor(policies, t) # {}
                                THEN "CONFLICT"
                                ELSE "INTERNAL_SERVER_ERROR"

\* C19 witness: createPolicy was answered 409 with the table holding an
\* active row and a soft-deleted row.
C19_Witness ==
    /\ req.op = "createPolicy"
    /\ req.status = "CONFLICT"
    /\ \E p \in policies : ~p.isDeleted
    /\ \E p \in policies : p.isDeleted

\* The call of reader r makes a step that ends as `out`.
Ends(r, out) == lk.rd[r].out = "none" /\ lk'.rd[r].out = out

\* C13 as stated: a hit returns the entry, fetches nothing and leaves the
\* entry alone, and an entry, once stored, is only ever removed (by the expiry
\* or by the invalidation), never replaced.
C13_OnlyRemovedNeverReplaced ==
    [][/\ \A r \in Readers :
             Ends(r, "hit") => /\ lk'.rd[r].map = cache.data
                               /\ lk'.rd[r].list = <<>>
                               /\ cache' = cache
       /\ (cache.present /\ cache' # cache) => ~cache'.present
      ]_vars

\* C13 amended: a call that finds an entry ends at once with that entry as its
\* value, fetches nothing and leaves the entry and the table alone; and an
\* entry, once stored, changes only by being removed or by being replaced
\* with the map of a call that had missed and now stores.
C13_HitReturnsEntry ==
    [][/\ \A r \in Readers :
             /\ (lk.rd[r].pc = "idle" /\ lk'.rd[r].pc # "idle" /\ cache.present
                     /\ lk'.rd[r].out # "caught")
                   => Ends(r, "hit")
             /\ Ends(r, "hit") => /\ lk'.rd[r].pc = "done"
                                  /\ lk'.rd[r].ret = "value"
                                  /\ lk'.rd[r].map = cache.data
                                  /\ lk'.rd[r].list = <<>>
                                  /\ cache' = cache
                                  /\ policies' = policies
       /\ (cache.present /\ cache' # cache)
             => \/ ~cache'.present
                \/ \E r \in Readers :
                      /\ lk.rd[r].pc = "built"
                      /\ Ends(r, "stored")
                      /\ cache' = [present |-> TRUE, data |-> lk.rd[r].map]
      ]_vars

\* C13 witness: a call ended as a hit with the map that the other call built
\* from a policy and stored, and the entry is still that map.
C13_Witness ==
    \E r \in Readers, q \in Readers :
        /\ lk.rd[r].out = "hit"
        /\ lk.rd[q].out = "stored"
        /\ lk.rd[r].map # EmptyMap
        /\ lk.rd[r].map = lk.rd[q].map
        /\ cache = [present |-> TRUE, data |-> lk.rd[r].map]

C17_WholeMapLastWriter ==
    /\ [](cache.present =>
            /\ lk.writer \in Readers
            /\ lk.rd[lk.writer].out = "stored"
            /\ cache.data = buildRBACMap(lk.rd[lk.writer].list))
    /\ [](\A r \in Readers :
            lk.rd[r].out \in {"hit", "stored"} =>
                \E q \in Readers :
                    /\ lk.rd[q].pc \in {"built", "done"}
                    /\ lk.rd[q].out \in {"none", "stored"}
                    /\ lk.rd[r].map = buildRBACMap(lk.rd[q].list))
    /\ [][\A r \in Readers :
             Ends(r, "stored") =>
                 cache' = [present |-> TRUE, data |-> lk.rd[r].map]]_vars

\* C17 witness: both calls missed, fetched different lists and stored; the
\* entry is the map of the one that stored last.
C17_Witness ==
    /\ \A r \in Readers : lk.rd[r].out = "stored"
    /\ \E r \in Readers, q \in Readers : lk.rd[r].map # lk.rd[q].map
    /\ cache.present
    /\ lk.writer \in Readers
    /\ cache.data = lk.rd[lk.writer].map

Tuples(P) ==
    {[role |-> p.role, permission |-> p.permission, resource |-> p.resource,
      scope |-> p.scope, isDeleted |-> p.isDeleted] : p \in P}

\* Every intent of bulk request i of SpecRace names tuple t.
AllOn(i, t) ==
    \A j \in 1..Len(rc.b[i].acs) : namesOf(rc.b[i].acs[j]) = t

RaceOver == rc.b # <<>> /\ \A i \in 1..2 : rc.b[i].pc = "done"

\* C15: when two bulk requests whose intents all name one tuple, which had no
\* row when they started, have run beside each other, both have replied 200,
\* the tuple has at most one row, and the row is active exactly if the write
\* applied last was that of a Grant.
C15_SameTupleLastWriteWins ==
    LET t == <<<<"a">>, <<"a">>, <<"a">>, <<"a">>>> IN
    (RaceOver /\ AllOn(1, t) /\ AllOn(2, t)) =>
        /\ \A i \in 1..2 : rc.b[i].status = "SUCCESS"
        /\ Cardinality(RowsFor(policies, t)) <= 1
        /\ rc.last = "grant" => ActiveRowsFor(policies, t) # {}
        /\ rc.last = "revoke" => ActiveRowsFor(policies, t) = {}

\* C16: when two bulk requests that name different tuples have run beside
\* each other, both have replied 200 and the table holds the rows that it
\* holds after the two requests have run one after the other, in either order.
C16_DisjointNeverConflict ==
    LET t1 == <<<<"a">>, <<"a">>, <<"a">>, <<"a">>>>
        t2 == <<<<"a">>, <<"b">>, <<"a">>, <<"a">>>>
        one == rc.b[1].acs
        two == rc.b[2].acs
    IN  (RaceOver /\ AllOn(1, t1) /\ AllOn(2, t2)) =>
            /\ \A i \in 1..2 : rc.b[i].status = "SUCCESS"
            /\ Tuples(policies)
                  = Tuples(updateAccessControlListOut(two,
                        updateAccessControlListOut(one, rc.p0).rows).rows)
            /\ Tuples(policies)
                  = Tuples(updateAccessControlListOut(one,
                        updateAccessControlListOut(two, rc.p0).rows).rows)

---------------------------------------------------------------------------
\* The life of a tuple in the Policy table.

\* Rows p and q stand for the same tuple.
SameTuple(p, q) == \A c \in PolicyUnique : p[c] = q[c]

\* The ids a request may name for a policy that is there or not: the ids the
\* table can hold and one more.
KnownOrUnknownIds == 1..(MaxPolicies + 1)

\* C21: a tuple that has a row keeps that row, under the same id, in every
\* later state, and a tuple whose row is soft-deleted gets an active row only
\* as that same row, never as an inserted one.
C21_TupleNeverAbsent ==
    [][/\ \A p \in policies : \E q \in policies' : q.id = p.id /\ SameTuple(p, q)
       /\ \A p \in policies : \A q \in policies' :
             (p.isDeleted /\ ~q.isDeleted /\ SameTuple(p, q)) => q.id = p.id
      ]_vars

\* C22: on every table, for every tuple whose dimensions are active, the bulk
\* request [Grant, Revoke] is answered 200 and leaves the tuple without an
\* active row, and the bulk request [Revoke, Grant] is answered 200 and leaves
\* the tuple with an active row.
C22_LastIntentWins ==
    \A t \in ResolvableTuples :
        LET gr == updateAccessControlListOut(<<Grant(t), Revoke(t)>>, policies)
            rg == updateAccessControlListOut(<<Revoke(t), Grant(t)>>, policies)
        IN  /\ gr.status = "SUCCESS"
            /\ ActiveRowsFor(gr.rows, t) = {}
            /\ rg.status = "SUCCESS"
            /\ ActiveRowsFor(rg.rows, t) # {}

\* C23: a Revoke of a tuple that has an active row sets isDeleted on that row
\* alone: the row keeps its id and its four references, every other row is as
\* it was, and the request is answered 200.
C23_RevokeTouchesOneRow ==
    \A t \in ResolvableTuples : \A p \in ActiveRowsFor(policies, t) :
        /\ deleteAccessControl(Revoke(t), policies, FALSE)
              = [rows |-> (policies \ {p}) \cup {[p EXCEPT !.isDeleted = TRUE]},
                 thrown |-> FALSE, log |-> "Soft deleting policy..."]
        /\ updateAccessControlListOut(<<Revoke(t)>>, policies).status = "SUCCESS"

\* C23 witness: a bulk request whose last intent soft-deleted a row was
\* answered 200, and the table holds the soft-deleted row and an active one.
C23_Witness ==
    /\ req.op = BulkOp
    /\ req.status = "SUCCESS"
    /\ req.last = "Soft deleting policy..."
    /\ Cardinality({q \in policies : q.isDeleted}) = 1
    /\ Cardinality({q \in policies : ~q.isDeleted}) = 1

\* C24: deletePolicy with an id that has no active row (no row, or a
\* soft-deleted one) is answered 404 and leaves the table as it is; and
\* deletePolicy of an active row is answered 200, after which the same
\* deletePolicy is answered 404 and changes nothing.
C24_DeleteInactiveNotFound ==
    \A policyId \in KnownOrUnknownIds :
        LET once  == deletePolicyOut(policyId, policies)
            twice == deletePolicyOut(policyId, once.rows)
        IN  IF \E p \in policies : p.id = policyId /\ ~p.isDeleted
            THEN /\ once.status = "SUCCESS"
                 /\ twice = [rows |-> once.rows, status |-> "NOT_FOUND"]
            ELSE once = [rows |-> policies, status |-> "NOT_FOUND"]

\* C24 witness: deletePolicy was answered 404 while the table holds a
\* soft-deleted row and an active row.
C24_Witness ==
    /\ req.op = "deletePolicy"
    /\ req.status = "NOT_FOUND"
    /\ \E p \in policies : p.isDeleted
    /\ \E p \in policies : ~p.isDeleted

\* C30: updatePolicy with the id of no row or of a soft-deleted row changes no
\* row; and updatePolicy of an active row to a tuple that another row has,
\* active or soft-deleted, is answered 500 and changes no row.
C30_UpdateOnlyActiveRow ==
    \A policyId \in KnownOrUnknownIds :
        /\ (~\E p \in policies : p.id = policyId /\ ~p.isDeleted)
              => \A names \in NameTuples :
                     updatePolicyOut(policyId, names, policies).rows = policies
        /\ (\E p \in policies : p.id = policyId /\ ~p.isDeleted)
              => \A t \in ResolvableTuples :
                    (\E q \in RowsFor(policies, t) : q.id # policyId)
                       => updatePolicyOut(policyId, t, policies)
                             = [rows |-> policies,
                                status |-> "INTERNAL_SERVER_ERROR"]

\* C30 witness: updatePolicy was answered 500 while the table holds an active
\* row and a soft-deleted row.
C30_Witness ==
    /\ req.op = "updatePolicy"
    /\ req.status = "INTERNAL_SERVER_ERROR"
    /\ \E p \in policies : p.isDeleted
    /\ \E p \in policies : ~p.isDeleted

\* C27: once a bulk request has been answered 200 and the call of
\* getRBACPolicyMap that ran beside it has ended, the index in the cache, if
\* there is one, is the index of the policies as the request left them: no
\* index built from a list fetched before the request's last write stays in
\* the cache.
C27_NoStaleIndexAfterBatch ==
    (/\ req.op = BulkOp
     /\ req.status = "SUCCESS"
     /\ lk.rd[1].pc = "done"
     /\ cache.present) => cache.data = missMap(policies)

\* C29: a call of getRBACPolicyMap whose fetch threw, or gave no list, returns
\* {} and leaves the cache as it was, so that the next call misses again.
C29_FailedRebuildStoresNothing ==
    [][\A r \in Readers :
          (/\ lk.rd[r].pc # "done"
           /\ lk'.rd[r].pc = "done"
           /\ (lk'.rd[r].out = "caught" \/ ~lk.rd[r].usable))
             => /\ lk'.rd[r].map = EmptyMap
                /\ cache' = cache
      ]_vars

---------------------------------------------------------------------------
\* The dimension tables.

\* C25: in each dimension table no two rows that are not deleted have names
\* that are equal once their case is folded.
C25_ActiveNamesUnique ==
    \A kind \in KindSet : \A p \in dims[kind] : \A q \in dims[kind] :
        (p.id # q.id /\ ~p.isDeleted /\ ~q.isDeleted)
            => toLowerCase(p.name) # toLowerCase(q.name)

\* C25 witness: a PUT or PATCH that would have given a row the name of
\* another row was refused, and the role table holds two active rows.
C25_Witness ==
    /\ req.op \in {"updateDimension", "updateDimensionFields"}
    /\ req.status = "INTERNAL_SERVER_ERROR"
    /\ Cardinality({d \in dims.role : ~d.isDeleted}) = 2

\* C26: in each dimension table, a create whose trimmed, lower-cased name is
\* the name of a soft-deleted row is answered 201 and leaves the table as it
\* was but for that row, which is active and has the new description; and a
\* create whose name no row has is answered 201 and adds exactly one row,
\* active, with that name and description, and changes no other row.
C26_CreateOrRestore ==
    \A kind \in KindSet : \A name \in DimNames : \A description \in Descriptions :
        LET T == dims[kind]
            n == toLowerCase(trim(name))
            out == createDimensionOut(T, name, description)
        IN  n # <<>> =>
              /\ \A d \in T :
                    (d.name = n /\ d.isDeleted) =>
                        out = [rows |-> (T \ {d}) \cup
                                   {[d EXCEPT !.isDeleted = FALSE,
                                              !.description = description]},
                               status |-> "CREATED"]
              /\ (~\E d \in T : d.name = n) =>
                    /\ out.status = "CREATED"
                    /\ T \subseteq out.rows
                    /\ \E row \in out.rows \ T :
                          /\ out.rows \ T = {row}
                          /\ row.name = n
                          /\ row.description = description
                          /\ ~row.isDeleted
                          /\ \A d \in T : d.id # row.id

\* C26 witness: a create was answered 201 and the seeded soft-deleted role b
\* is active under its id, with the description of the request.
C26_Witness ==
    /\ req.op = "createDimension"
    /\ req.status = "CREATED"
    /\ [id |-> 2, name |-> <<"b">>, description |-> <<"y">>,
        isDeleted |-> FALSE] \in dims.role

\* The dimension row of the kind at position i that policy p refers to.
DimensionOf(p, i) == CHOOSE d \in dims[Kinds[i]] : d.id = p[Kinds[i]]

\* C28: the index built on a cache miss has no path through a soft-deleted
\* dimension row: when the cache holds no entry, authorize answers false on
\* the index of the next lookup for the names of every policy that refers to a
\* soft-deleted Role, Permission, Resource or Scope row.
C28_NoPathThroughDeleted ==
    ~cache.present =>
        \A p \in policies :
            (\E i \in 1..4 : DimensionOf(p, i).isDeleted)
                => ~authorize(missMap(policies),
                              [i \in 1..4 |-> DimensionOf(p, i).name])

====
